---- MODULE Spec2Model ----
(***************************************************************************)
(* Obstacle-avoidance pipeline of src/obstacle_depth.py (function main):   *)
(* camera lifecycle, per-frame cycle, depth preprocessing, per-box         *)
(* distance estimate and the spoken-alert step.                            *)
(*                                                                         *)
(* Lengths are fixed-point integers: a length of v millimetres (or v       *)
(* centimetres) is the integer v * Scale, so that the 5th percentile       *)
(* (multiples of 1/20), the median (multiples of 1/2) and the product      *)
(* with 0.1 are all exact.  Floating-point rounding of numpy is not        *)
(* modelled: arithmetic is over the rationals.                             *)
(*                                                                         *)
(* Line 167 of the source carries a stray token ("... 5) s") that no       *)
(* Python parser accepts; the model follows the statement without it.      *)
(*                                                                         *)
(* Spec is main() as a whole.  EstSpec is the distance estimator of lines  *)
(* 207-225 taken alone, applied to an array of valid depths of any order.  *)
(* ret, start_calls, requested, stalls and frame record what main() was    *)
(* given and what it called; the code keeps ret and frame itself.          *)
(***************************************************************************)
EXTENDS Integers, Sequences, FiniteSets, TLC

VARIABLES
    pc,              \* position of main()
    cam_open,        \* cam.open() succeeded and cam.close() not yet called
    streaming,       \* cam.start() succeeded and cam.stop() not yet called
    out_open,        \* the cv2.VideoWriter exists and out.release() not yet called
    stop_calls,      \* number of cam.stop() calls
    close_calls,     \* number of cam.close() calls
    release_calls,   \* number of out.release() calls
    outstanding,     \* frames handed out by requestFrame and not yet released
    frame_kind,      \* what the last requestFrame returned: "none", "null", "other", "depth"
    depth_buf,       \* frame.depth_data  (millimetres per pixel)
    confidence_buf,  \* frame.confidence_data (0..255 per pixel)
    depth_norm,      \* the gated, clipped, normalised copy (line 164)
    dets,            \* results[0].boxes: the detections of this frame
    idx,             \* index of the detection the for-loop is at
    dist_cm,         \* the distance estimate of the current detection: <<>> is None
    visited,         \* per detection of this frame: how far its iteration got
                     \* ("pending", "skipped", "estimated", "alerted", "raised") and its estimate
    alerts,          \* alert strings handed to the audio sink in this cycle
    video_writes,    \* out.write() calls of this cycle
    snapshots,       \* cv2.imwrite("detections.jpg") calls of this cycle
    interrupted,     \* a KeyboardInterrupt was delivered
    err,             \* the exception that ended the run, "" if none
    fatal,           \* <<stage, code>> printed on open/start failure
    exit_code,       \* <<>> while running, <<c>> once the process has exited
    ret,             \* the local ret: 0, then what cam.open and cam.start returned
    start_calls,     \* number of cam.start() calls
    requested,       \* cam.requestFrame has been called at least once
    stalls,          \* requestFrame calls in a row that returned nothing (counted up to MaxStalls)
    frame,           \* the frame as the camera delivered it: depth_data and confidence_data
    est_pc,          \* the estimator taken alone: "idle", "in" (valid given), "done"
    est_valid,       \* the array valid of line 207, in the order of the mask
    est_dist,        \* dist_cm as lines 209-225 compute it from est_valid
    va_pc,           \* position of run_voice_assistant(): "idle" when it is not running
    keyword_index,   \* what porcupine.process last returned in listen_for_wake_word: <<>> if nothing
    va_text,         \* text, the transcription
    raw_response,    \* what the LLM returned
    parsed,          \* what parse_llm_json returned
    reply_text,      \* reply_text of run_voice_assistant
    navigation_process,  \* the global handle: <<>> is None, <<i>> the i-th process started
    va_procs,        \* the navigation subprocesses started so far: "running", "exited", "terminated"
    va_speaks,       \* tts.speak calls of this iteration of the loop
    va_tool_calls,   \* call_navigation_tool calls of this iteration
    va_err,          \* why the loop ended: where the exception came from, and its type
    \* src/GPS_Module/navigation.py
    nav_pc,          \* "idle", "open", "loop", "exited"
    ser,             \* the serial port of navigate_loop: "none", "open", "closed"
    nav_line,        \* what the last ser.readline() gave
    route_fetched,
    gps_fix_count,
    route_steps,     \* the end point of each step of the route
    current_step_index,
    destination_reached,
    current_lat,
    current_lon,
    nav_fixes,       \* valid fixes handled so far
    route_requests,  \* calls of get_route_from_osrm so far
    announced,       \* calls of print_next_instruction so far: the index and what was said
    nav_exit,        \* how navigate_loop was left
    \* src/GPS_Module/aws_gps_publisher.py
    gps_data,        \* the global dict; a value n stands for the value sentence n carries
    rd_pc,           \* gps_reader: "idle", "open", "read", "latitude", ..., "dead"
    rd_line,         \* the sentence parse_gps_data is working on
    rd_seq,          \* sentences read so far
    rd_ret,          \* what the last parse_gps_data returned
    pub_pc,          \* main: "idle", "connect", "check", "latitude", "longitude", "rest", "exited"
    payload,
    counter,
    published        \* the last payload handed to mqtt_publish

vars == <<pc, cam_open, streaming, out_open, stop_calls, close_calls, release_calls,
          outstanding, frame_kind, depth_buf, confidence_buf, depth_norm, dets, idx,
          dist_cm, visited, alerts, video_writes, snapshots, interrupted, err, fatal,
          exit_code, ret, start_calls, requested, stalls, frame,
          est_pc, est_valid, est_dist,
          va_pc, keyword_index, va_text, raw_response, parsed, reply_text,
          navigation_process, va_procs, va_speaks, va_tool_calls, va_err,
          nav_pc, ser, nav_line, route_fetched, gps_fix_count, route_steps,
          current_step_index, destination_reached, current_lat, current_lon, nav_fixes,
          route_requests, announced, nav_exit,
          gps_data, rd_pc, rd_line, rd_seq, rd_ret, pub_pc, payload, counter, published>>

req_vars == <<requested, stalls>>
aux_vars == <<ret, start_calls, req_vars, frame>>

est_vars == <<est_pc, est_valid, est_dist>>
va_vars == <<va_pc, keyword_index, va_text, raw_response, parsed, reply_text,
             navigation_process, va_procs, va_speaks, va_tool_calls, va_err>>
nav_vars == <<nav_pc, ser, nav_line, route_fetched, gps_fix_count, route_steps,
              current_step_index, destination_reached, current_lat, current_lon, nav_fixes,
              route_requests, announced, nav_exit>>
pub_vars == <<gps_data, rd_pc, rd_line, rd_seq, rd_ret, pub_pc, payload, counter, published>>
not_main_vars == <<est_vars, va_vars, nav_vars, pub_vars>>

----------------------------------------------------------------------------
(* Program constants *)

MAX_DISTANCE == 4000
CONF_THR == 30
MARGIN_MM == 250
PERSON_MIN_CM == 130
PERSON_MAX_CM == 250
OBSTACLE_MIN_CM == 45
OBSTACLE_MAX_CM == 150
STOP_CM == 45

\* fixed-point denominator of every length: 20 for the 5th percentile (line 213), 2 for
\* the median (line 222), 10 for the product with 0.1 (line 225)
Scale == 200

(* Bounds of the model *)

\* frame width and height (the device reports 240 x 180)
W == 3
H == 2
\* detections per frame
MaxDets == 2
\* frames of another kind than DepthData the camera hands out in one run
MaxLeaked == 1
\* valid pixels of a box, for the estimator taken alone
MaxValid == 5
\* the count of requestFrame calls in a row that returned nothing stops at this number
MaxStalls == 2

----------------------------------------------------------------------------
(* Inputs *)

Pixels == (0 .. W - 1) \X (0 .. H - 1)

\* depth readings in millimetres: no return, just below 45 cm, the band limits 45, 130,
\* 150 and 250 cm, and one reading beyond the range setting
DepthVals == {0, 449, 450, 1300, 1500, 2500, 4500}

\* one pixel: a depth reading with its confidence
Samples == [d : DepthVals, c : {CONF_THR}] \cup [d : {449}, c : {CONF_THR - 1}]

\* the pixels that vary from frame to frame; every other pixel carries the background
\* sample, a far reading of no confidence
FreePixels == {<<0, 0>>, <<1, 0>>}
Background == [d |-> 4500, c |-> 0]

FrameInputs ==
    { [p \in Pixels |-> IF p \in FreePixels THEN f[p] ELSE Background] :
        f \in [FreePixels -> Samples] }

\* boxes as the detector returns them (x1, y1, x2, y2), already truncated to integers:
\* one pixel, and one reaching beyond the frame on every side
LiveBoxes == { <<0, 0, 1, 1>>, <<-1, -1, W + 1, H + 1>> }
\* in the last column and beyond: degenerate once clamped (x1 = x2 = W - 1)
DegenerateBoxes == { <<W - 1, 0, W + 3, 1>> }
\* class 0 is the person; the class of a box that is passed over is never read
ClassIds == {0, 1}
Detections == [box : LiveBoxes, cls : ClassIds] \cup [box : DegenerateBoxes, cls : {1}]

RECURSIVE SeqsUpTo(_, _)
SeqsUpTo(S, n) ==
    IF n = 0 THEN {<<>>}
    ELSE LET shorter == SeqsUpTo(S, n - 1)
         IN shorter \cup { Append(s, x) : s \in {t \in shorter : Len(t) = n - 1}, x \in S }

DetectionInputs == SeqsUpTo(Detections, MaxDets)

\* the array valid (line 207) for the estimator taken alone: depths of one surface
\* between 1400 and 1460 mm and a farther one at 1720 mm
EstDepths == {1400, 1420, 1430, 1450, 1460, 1720}
ValidInputs == SeqsUpTo(EstDepths, MaxValid)

RetCodes == {0, -1}

None == <<>>
Some(x) == <<x>>
NoFrame == [p \in Pixels |-> 0]
NoFrameData == [depth_data |-> NoFrame, confidence_data |-> NoFrame]

----------------------------------------------------------------------------
(* Depth preprocessing, lines 150-164 *)

Min(a, b) == IF a < b THEN a ELSE b
Max(a, b) == IF a > b THEN a ELSE b

\* depth[conf < CONF_THR] = 0
GateDepth(depth, conf) ==
    [p \in Pixels |-> IF conf[p] < CONF_THR THEN 0 ELSE depth[p]]

\* the clip without its upper limit
ClipDepth_NoUpper(depth, max_mm) ==
    [p \in Pixels |-> Max(0, depth[p])]

\* np.clip(depth, 0, MAX_MM)
ClipDepth(depth, max_mm) ==
    [p \in Pixels |-> Max(0, Min(max_mm, depth[p]))]

\* (depth * (255.0 / MAX_MM)).astype(np.uint8)
NormalizeDepth(depth, max_mm) ==
    [p \in Pixels |-> ((depth[p] * 255) \div max_mm) % 256]

Preprocess(depth, conf, max_mm) ==
    NormalizeDepth(ClipDepth(GateDepth(depth, conf), max_mm), max_mm)

(* Visualisation, lines 167-178 *)

\* cv2.medianBlur(img, 5): the median (13th smallest) of the 5 x 5 neighbourhood of
\* each pixel, the border pixels replicated beyond the image
MedianBlur5(img) ==
    [p \in Pixels |->
        LET nb == (-2 .. 2) \X (-2 .. 2)
            at(o) == img[<<Max(0, Min(W - 1, p[1] + o[1])), Max(0, Min(H - 1, p[2] + o[2]))>>]
        IN CHOOSE v \in {at(o) : o \in nb} :
               /\ Cardinality({o \in nb : at(o) < v}) < 13
               /\ 13 <= Cardinality({o \in nb : at(o) <= v})]

\* mask = (conf >= CONF_THR).astype(np.uint8)
ConfMask(conf) == [p \in Pixels |-> IF conf[p] >= CONF_THR THEN 1 ELSE 0]

\* cv2.applyColorMap(img, COLORMAP_RAINBOW): a colour of the table for each level; the
\* table holds no black
Black == <<0, 0, 0>>
ApplyColorMap(img) == [p \in Pixels |-> <<"rainbow", img[p]>>]

\* cv2.bitwise_and(image, cvtColor(mask * 255)): the colour where mask is 1, black where 0
BitwiseAnd(image, mask) == [p \in Pixels |-> IF mask[p] = 0 THEN Black ELSE image[p]]

\* result_image of line 178, the image the detector is given
Visualize(norm, conf) ==
    BitwiseAnd(ApplyColorMap(MedianBlur5(norm)), MedianBlur5(ConfMask(conf)))

----------------------------------------------------------------------------
(* Distance estimate of one box, lines 190-225 *)

\* max(0, min(limit, v))
Clamp(v, limit) == Max(0, Min(limit, v))

ClampBox(b) ==
    [x1 |-> Clamp(b[1], W - 1), y1 |-> Clamp(b[2], H - 1),
     x2 |-> Clamp(b[3], W - 1), y2 |-> Clamp(b[4], H - 1)]

\* the test with strict comparisons: a box of no width or no height passes
Degenerate_Strict(cb) == cb.x2 < cb.x1 \/ cb.y2 < cb.y1

\* if x2 <= x1 or y2 <= y1: continue
Degenerate(cb) == cb.x2 <= cb.x1 \/ cb.y2 <= cb.y1

\* the pixels of depth_buf[y1:y2, x1:x2]
RoiPixels(cb) ==
    {p \in Pixels : cb.x1 <= p[1] /\ p[1] < cb.x2 /\ cb.y1 <= p[2] /\ p[2] < cb.y2}

\* the mask without its depth test: mask = (roi_c >= CONF_THR)
ValidPixels_NoDepthTest(cb, depth, conf) ==
    {p \in RoiPixels(cb) : conf[p] >= CONF_THR}

\* the mask without its confidence test: mask = (roi_d > 0)
ValidPixels_NoConfidenceTest(cb, depth, conf) ==
    {p \in RoiPixels(cb) : depth[p] > 0}

\* mask = (roi_d > 0) & (roi_c >= CONF_THR)
ValidPixels(cb, depth, conf) ==
    {p \in RoiPixels(cb) : depth[p] > 0 /\ conf[p] >= CONF_THR}

\* the depths at the pixels ps in ascending order, one entry per pixel
RECURSIVE SortedDepths(_, _)
SortedDepths(ps, depth) ==
    IF ps = {} THEN <<>>
    ELSE LET p == CHOOSE q \in ps : \A r \in ps : depth[q] <= depth[r]
         IN <<depth[p]>> \o SortedDepths(ps \ {p}, depth)

\* the percentile without interpolation: the order statistic below the position
Percentile5_Lower(s) == s[((Len(s) - 1) * 5) \div 100 + 1] * Scale

\* np.percentile(valid, 5) with linear interpolation between order statistics,
\* of a non-empty ascending sequence of millimetres; the result is scaled by Scale
Percentile5(s) ==
    LET pos == (Len(s) - 1) * 5
        k == pos \div 100
        f == pos % 100
    IN IF f = 0 THEN s[k + 1] * Scale
       ELSE s[k + 1] * Scale + (f * (s[k + 2] - s[k + 1]) * Scale) \div 100

\* the depths beyond the margin in place of the ones within it
NearCluster_Far(s, d_min) ==
    SelectSeq(s, LAMBDA v : v * Scale > d_min + MARGIN_MM * Scale)

\* valid[valid <= d_min + MARGIN_MM], of an ascending sequence
NearCluster(s, d_min) ==
    SelectSeq(s, LAMBDA v : v * Scale <= d_min + MARGIN_MM * Scale)

\* np.median of a non-empty ascending sequence of millimetres, scaled by Scale
Median(s) ==
    LET n == Len(s)
    IN IF n % 2 = 1 THEN s[(n + 1) \div 2] * Scale
       ELSE ((s[n \div 2] + s[n \div 2 + 1]) * Scale) \div 2

\* dist_mm * 0.1
MmToCm(dist_mm) == dist_mm \div 10

\* lines 209-225 on the array valid in ascending order: None, or the distance in
\* centimetres scaled by Scale
EstimateValid(valid) ==
    IF Len(valid) = 0 THEN None
    ELSE LET d_min == Percentile5(valid)
             obj_depths == NearCluster(valid, d_min)
             dist_mm == IF Len(obj_depths) = 0 THEN d_min ELSE Median(obj_depths)
         IN Some(MmToCm(dist_mm))

\* lines 202-225: the estimate of the clamped box cb
EstimateDistance(cb, depth, conf) ==
    EstimateValid(SortedDepths(ValidPixels(cb, depth, conf), depth))

----------------------------------------------------------------------------
(* Alert step of one detection, lines 228-247 *)

\* f"{dist_cm:.0f}": the nearest integer, ties to the even one
Format0(d) ==
    LET q == d \div Scale
        r == d % Scale
    IN IF 2 * r < Scale THEN q
       ELSE IF 2 * r > Scale THEN q + 1
       ELSE IF q % 2 = 0 THEN q ELSE q + 1

\* the person band with its lower bound tested strictly (dist_cm > 130)
PersonBand_StrictLower(cls_id, d) ==
    cls_id = 0 /\ d < PERSON_MAX_CM * Scale /\ d > PERSON_MIN_CM * Scale

PersonBand(cls_id, d) ==
    cls_id = 0 /\ d < PERSON_MAX_CM * Scale /\ d >= PERSON_MIN_CM * Scale

\* the obstacle band without its lower bound: it then takes the distances below 45 cm
\* before the stop test is reached
ObstacleBand_NoLower(cls_id, d) ==
    cls_id # 0 /\ d < OBSTACLE_MAX_CM * Scale

ObstacleBand(cls_id, d) ==
    cls_id # 0 /\ d < OBSTACLE_MAX_CM * Scale /\ d >= OBSTACLE_MIN_CM * Scale

StopBand(d) == d < STOP_CM * Scale

\* the chain with the obstacle band closed at 150 cm (dist_cm <= 150)
ObstacleBand_ClosedUpper(cls_id, d) ==
    cls_id # 0 /\ d <= OBSTACLE_MAX_CM * Scale /\ d >= OBSTACLE_MIN_CM * Scale

AlertsFor_ClosedUpper(cls_id, d) ==
    IF PersonBand(cls_id, d)
    THEN <<[sink |-> "espeak", msg |-> "Person ahead at {d} centimeters", d |-> Format0(d)]>>
    ELSE IF ObstacleBand_ClosedUpper(cls_id, d)
    THEN <<[sink |-> "pyttsx3", msg |-> "Obstacle detected ahead at distance {d} centimeters",
            d |-> Format0(d)]>>
    ELSE IF StopBand(d)
    THEN <<[sink |-> "pyttsx3", msg |-> "Stop, obstacle very close", d |-> -1]>>
    ELSE <<>>

\* the if / elif / elif chain: the alerts one detection with a concrete distance d sends
AlertsFor(cls_id, d) ==
    IF PersonBand(cls_id, d)
    THEN <<[sink |-> "espeak", msg |-> "Person ahead at {d} centimeters", d |-> Format0(d)]>>
    ELSE IF ObstacleBand(cls_id, d)
    THEN <<[sink |-> "pyttsx3", msg |-> "Obstacle detected ahead at distance {d} centimeters",
            d |-> Format0(d)]>>
    ELSE IF StopBand(d)
    THEN <<[sink |-> "pyttsx3", msg |-> "Stop, obstacle very close", d |-> -1]>>
    ELSE <<>>

\* dist_cm < 250 with dist_cm None raises TypeError, whatever the class: for class 0
\* in the first condition, for any other class in the second
AlertRaises(cls_id, dist) == dist = None

----------------------------------------------------------------------------
(* The programs that are not running in a specification *)

NoText == [fence |-> "none", kind |-> "unset", mode |-> "", reply |-> "", tool |-> "",
           arguments |-> ""]
NoParsed == [mode |-> "", reply |-> "", tool |-> "", arguments |-> ""]

\* main() of src/obstacle_depth.py is not running
MainIdle ==
    /\ pc = "open"
    /\ cam_open = FALSE
    /\ streaming = FALSE
    /\ out_open = FALSE
    /\ stop_calls = 0
    /\ close_calls = 0
    /\ release_calls = 0
    /\ outstanding = 0
    /\ frame_kind = "none"
    /\ depth_buf = NoFrame
    /\ confidence_buf = NoFrame
    /\ depth_norm = NoFrame
    /\ dets = <<>>
    /\ idx = 0
    /\ dist_cm = None
    /\ visited = <<>>
    /\ alerts = <<>>
    /\ video_writes = 0
    /\ snapshots = 0
    /\ interrupted = FALSE
    /\ err = ""
    /\ fatal = <<>>
    /\ exit_code = <<>>
    /\ ret = 0
    /\ start_calls = 0
    /\ requested = FALSE
    /\ stalls = 0
    /\ frame = NoFrameData

\* the estimator taken alone is not running
EstIdle ==
    /\ est_pc = "idle"
    /\ est_valid = <<>>
    /\ est_dist = None

NoLine == [type |-> "none", lat |-> 0, lon |-> 0]

\* src/GPS_Module/navigation.py is not running
NavIdle ==
    /\ nav_pc = "idle"
    /\ ser = "none"
    /\ nav_line = NoLine
    /\ route_fetched = FALSE
    /\ gps_fix_count = 0
    /\ route_steps = <<>>
    /\ current_step_index = 0
    /\ destination_reached = FALSE
    /\ current_lat = None
    /\ current_lon = None
    /\ nav_fixes = 0
    /\ route_requests = 0
    /\ announced = <<>>
    /\ nav_exit = ""

\* gps_data as the module creates it, lines 21-27
NoGpsData ==
    [latitude |-> None, longitude |-> None, altitude |-> None, satellites |-> 0,
     hdop |-> None]

NoSentence == [type |-> "none", fix |-> 0, lat |-> "", lon |-> "", alt |-> "", hdop |-> ""]

NoPayload ==
    [latitude |-> None, longitude |-> None, altitude |-> None, satellites |-> 0,
     hdop |-> None]

\* src/GPS_Module/aws_gps_publisher.py is not running
PubIdle ==
    /\ gps_data = NoGpsData
    /\ rd_pc = "idle"
    /\ rd_line = NoSentence
    /\ rd_seq = 0
    /\ rd_ret = None
    /\ pub_pc = "idle"
    /\ payload = NoPayload
    /\ counter = 0
    /\ published = None

\* src/voice_assistant.py is not running
VaIdle ==
    /\ va_pc = "idle"
    /\ keyword_index = None
    /\ va_text = ""
    /\ raw_response = NoText
    /\ parsed = NoParsed
    /\ reply_text = ""
    /\ navigation_process = None
    /\ va_procs = <<>>
    /\ va_speaks = 0
    /\ va_tool_calls = 0
    /\ va_err = <<>>

----------------------------------------------------------------------------
(* main(), lines 85-279 *)

Init ==
    /\ pc = "open"
    /\ cam_open = FALSE
    /\ streaming = FALSE
    /\ out_open = FALSE
    /\ stop_calls = 0
    /\ close_calls = 0
    /\ release_calls = 0
    /\ outstanding = 0
    /\ frame_kind = "none"
    /\ depth_buf = NoFrame
    /\ confidence_buf = NoFrame
    /\ depth_norm = NoFrame
    /\ dets = <<>>
    /\ idx = 0
    /\ dist_cm = None
    /\ visited = <<>>
    /\ alerts = <<>>
    /\ video_writes = 0
    /\ snapshots = 0
    /\ interrupted = FALSE
    /\ err = ""
    /\ fatal = <<>>
    /\ exit_code = <<>>
    /\ ret = 0
    /\ start_calls = 0
    /\ requested = FALSE
    /\ stalls = 0
    /\ frame = NoFrameData
    /\ est_pc = "idle"
    /\ est_valid = <<>>
    /\ est_dist = None
    /\ VaIdle
    /\ NavIdle
    /\ PubIdle

cam_vars == <<cam_open, streaming, out_open, stop_calls, close_calls, release_calls>>
frame_vars == <<frame_kind, depth_buf, confidence_buf, depth_norm>>
box_vars == <<dets, idx, dist_cm, visited>>
sink_vars == <<alerts, video_writes, snapshots>>
end_vars == <<interrupted, err, fatal, exit_code>>

\* cam.open without the return of line 103: the failure is printed and main goes on
OpenCamera_NoReturn ==
    /\ pc = "open"
    /\ \E code \in RetCodes :
         /\ ret' = code
         /\ fatal' = IF code # 0 THEN <<"open", code>> ELSE fatal
         /\ cam_open' = (code = 0)
    /\ pc' = "start"
    /\ UNCHANGED <<not_main_vars, start_calls, req_vars, frame, streaming, out_open, stop_calls,
                   close_calls, release_calls, outstanding, frame_vars, box_vars, sink_vars,
                   interrupted, err, exit_code>>

\* lines 96-103: cam.open; a non-zero code is printed and main returns
OpenCamera ==
    /\ pc = "open"
    /\ \E code \in RetCodes :
         /\ ret' = code
         /\ IF code # 0
            THEN /\ pc' = "exited"
                 /\ fatal' = <<"open", code>>
                 /\ exit_code' = Some(0)
                 /\ UNCHANGED cam_open
            ELSE /\ pc' = "start"
                 /\ cam_open' = TRUE
                 /\ UNCHANGED <<fatal, exit_code>>
    /\ UNCHANGED <<not_main_vars, start_calls, req_vars, frame, streaming, out_open, stop_calls, close_calls, release_calls, outstanding,
                   frame_vars, box_vars, sink_vars, interrupted, err>>

\* cam.start without the cam.close() of line 108
StartCamera_NoClose ==
    /\ pc = "start"
    /\ start_calls' = start_calls + 1
    /\ \E code \in RetCodes :
         /\ ret' = code
         /\ IF code # 0
            THEN /\ pc' = "exited"
                 /\ fatal' = <<"start", code>>
                 /\ exit_code' = Some(0)
                 /\ UNCHANGED <<streaming, out_open>>
            ELSE /\ pc' = "request"
                 /\ streaming' = TRUE
                 /\ out_open' = TRUE
                 /\ UNCHANGED <<fatal, exit_code>>
    /\ UNCHANGED <<not_main_vars, req_vars, frame, cam_open, close_calls, stop_calls, release_calls,
                   outstanding, frame_vars, box_vars, sink_vars, interrupted, err>>

\* lines 105-134: cam.start; on failure the camera is closed and main returns;
\* on success the controls are set, the video writer and the detector are created
StartCamera ==
    /\ pc = "start"
    /\ start_calls' = start_calls + 1
    /\ \E code \in RetCodes :
         /\ ret' = code
         /\ IF code # 0
            THEN /\ pc' = "exited"
                 /\ fatal' = <<"start", code>>
                 /\ cam_open' = FALSE
                 /\ close_calls' = close_calls + 1
                 /\ exit_code' = Some(0)
                 /\ UNCHANGED <<streaming, out_open>>
            ELSE /\ pc' = "request"
                 /\ streaming' = TRUE
                 /\ out_open' = TRUE
                 /\ UNCHANGED <<cam_open, close_calls, fatal, exit_code>>
    /\ UNCHANGED <<not_main_vars, req_vars, frame, stop_calls, release_calls, outstanding, frame_vars, box_vars, sink_vars,
                   interrupted, err>>

\* an exception leaves main through the try statement, which catches KeyboardInterrupt
\* only: the interpreter prints the traceback and exits with status 1
Uncaught(kind) ==
    /\ pc' = "crashed"
    /\ err' = kind
    /\ exit_code' = Some(1)

\* the frame test of line 138 without "frame is not None": frame.depth_data of line 139
\* raises AttributeError on None
RequestFrameNull_NoNoneTest ==
    /\ pc = "request"
    /\ frame_kind' = "null"
    /\ requested' = TRUE
    /\ stalls' = Min(stalls + 1, MaxStalls)
    /\ Uncaught("AttributeError")
    /\ UNCHANGED <<not_main_vars, ret, start_calls, frame, cam_vars, outstanding, depth_buf,
                   confidence_buf, depth_norm, box_vars, sink_vars, interrupted, fatal>>

\* line 137: cam.requestFrame(2000) times out or returns nothing; the body of the if is skipped
RequestFrameNull ==
    /\ pc = "request"
    /\ pc' = "waitkey"
    /\ frame_kind' = "null"
    /\ depth_buf' = NoFrame
    /\ confidence_buf' = NoFrame
    /\ depth_norm' = NoFrame
    /\ alerts' = <<>>
    /\ video_writes' = 0
    /\ snapshots' = 0
    /\ requested' = TRUE
    /\ stalls' = Min(stalls + 1, MaxStalls)
    /\ frame' = NoFrameData
    /\ UNCHANGED <<not_main_vars, ret, start_calls, cam_vars, outstanding, box_vars, end_vars>>

\* lines 137-138: a frame that is not ac.DepthData fails the isinstance test: the body of
\* the if, with its releaseFrame, is skipped
RequestFrameOther ==
    /\ pc = "request"
    /\ outstanding < MaxLeaked
    /\ pc' = "waitkey"
    /\ frame_kind' = "other"
    /\ outstanding' = outstanding + 1
    /\ depth_buf' = NoFrame
    /\ confidence_buf' = NoFrame
    /\ depth_norm' = NoFrame
    /\ alerts' = <<>>
    /\ video_writes' = 0
    /\ snapshots' = 0
    /\ requested' = TRUE
    /\ stalls' = 0
    /\ frame' = NoFrameData
    /\ UNCHANGED <<not_main_vars, ret, start_calls, cam_vars, box_vars, end_vars>>

\* the preprocessing without the copies of lines 154-155 and with the clip done in
\* place: gate and clip write into depth_buf itself
RequestFrameDepth_InPlace ==
    /\ pc = "request"
    /\ \E f \in FrameInputs :
         frame' = [depth_data |-> [p \in Pixels |-> f[p].d],
                   confidence_data |-> [p \in Pixels |-> f[p].c]]
    /\ depth_buf' = ClipDepth(GateDepth(frame'.depth_data, frame'.confidence_data),
                              MAX_DISTANCE)
    /\ confidence_buf' = frame'.confidence_data
    /\ depth_norm' = NormalizeDepth(depth_buf', MAX_DISTANCE)
    /\ pc' = "detect"
    /\ frame_kind' = "depth"
    /\ outstanding' = outstanding + 1
    /\ alerts' = <<>>
    /\ video_writes' = 0
    /\ snapshots' = 0
    /\ requested' = TRUE
    /\ stalls' = 0
    /\ UNCHANGED <<not_main_vars, ret, start_calls, cam_vars, box_vars, end_vars>>

\* lines 137-179: a depth frame arrives and is preprocessed; r is the range read back
\* from the camera after setControl(RANGE, MAX_DISTANCE)
RequestFrameDepth ==
    /\ pc = "request"
    /\ \E f \in FrameInputs :
         frame' = [depth_data |-> [p \in Pixels |-> f[p].d],
                   confidence_data |-> [p \in Pixels |-> f[p].c]]
    /\ depth_buf' = frame'.depth_data
    /\ confidence_buf' = frame'.confidence_data
    /\ depth_norm' = Preprocess(depth_buf', confidence_buf', MAX_DISTANCE)
    /\ pc' = "detect"
    /\ frame_kind' = "depth"
    /\ outstanding' = outstanding + 1
    /\ alerts' = <<>>
    /\ video_writes' = 0
    /\ snapshots' = 0
    /\ requested' = TRUE
    /\ stalls' = 0
    /\ UNCHANGED <<not_main_vars, ret, start_calls, cam_vars, box_vars, end_vars>>

\* lines 181-187: the detector returns the boxes of this frame
Detect ==
    /\ pc = "detect"
    /\ \E ds \in DetectionInputs :
         /\ dets' = ds
         /\ visited' = [i \in 1 .. Len(ds) |-> [status |-> "pending", dist |-> None]]
    /\ idx' = 1
    /\ dist_cm' = None
    /\ pc' = "box"
    /\ UNCHANGED <<not_main_vars, aux_vars, cam_vars, outstanding, frame_vars, sink_vars, end_vars>>

\* line 181: the detector call raises
DetectRaises ==
    /\ pc = "detect"
    /\ Uncaught("detector")
    /\ UNCHANGED <<not_main_vars, aux_vars, cam_vars, outstanding, frame_vars, box_vars, sink_vars, interrupted, fatal>>

\* lines 189-199: a box that is degenerate once clamped is passed over
SkipBox ==
    /\ pc = "box"
    /\ idx <= Len(dets)
    /\ Degenerate(ClampBox(dets[idx].box))
    /\ visited' = [visited EXCEPT ![idx].status = "skipped"]
    /\ idx' = idx + 1
    /\ UNCHANGED <<not_main_vars, aux_vars, pc, cam_vars, outstanding, frame_vars, dets, dist_cm, sink_vars, end_vars>>

\* lines 189-225: the distance of the box is estimated from the raw buffers
EstimateBox ==
    /\ pc = "box"
    /\ idx <= Len(dets)
    /\ ~Degenerate(ClampBox(dets[idx].box))
    /\ dist_cm' = EstimateDistance(ClampBox(dets[idx].box), depth_buf, confidence_buf)
    /\ visited' = [visited EXCEPT ![idx] = [status |-> "estimated", dist |-> dist_cm']]
    /\ pc' = "alert"
    /\ UNCHANGED <<not_main_vars, aux_vars, cam_vars, outstanding, frame_vars, dets, idx, sink_vars, end_vars>>

\* lines 228-247 with a concrete distance: at most one alert goes to the audio sink
AlertBox ==
    /\ pc = "alert"
    /\ ~AlertRaises(dets[idx].cls, dist_cm)
    /\ alerts' = alerts \o [i \in 1 .. Len(AlertsFor(dets[idx].cls, dist_cm[1])) |->
                              [det |-> idx] @@ AlertsFor(dets[idx].cls, dist_cm[1])[i]]
    /\ \E tts_ok \in BOOLEAN :
         IF tts_ok \/ AlertsFor(dets[idx].cls, dist_cm[1]) = <<>>
         THEN /\ pc' = "box"
              /\ idx' = idx + 1
              /\ dist_cm' = None
              /\ visited' = [visited EXCEPT ![idx].status = "alerted"]
              /\ UNCHANGED <<err, exit_code>>
         ELSE /\ Uncaught("tts")
              /\ visited' = [visited EXCEPT ![idx].status = "raised"]
              /\ UNCHANGED <<idx, dist_cm>>
    /\ UNCHANGED <<not_main_vars, aux_vars, cam_vars, outstanding, frame_vars, dets, video_writes, snapshots,
                   interrupted, fatal>>

\* lines 231-235 with dist_cm None: the comparison raises TypeError
AlertBoxRaises ==
    /\ pc = "alert"
    /\ AlertRaises(dets[idx].cls, dist_cm)
    /\ Uncaught("TypeError")
    /\ visited' = [visited EXCEPT ![idx].status = "raised"]
    /\ UNCHANGED <<not_main_vars, aux_vars, cam_vars, outstanding, frame_vars, dets, idx, dist_cm, sink_vars,
                   interrupted, fatal>>

\* lines 250-266: the loop over the boxes is over; snapshot if there was a box, the
\* annotated frame is written, the frame is released
FinishCycle ==
    /\ pc = "box"
    /\ idx > Len(dets)
    /\ snapshots' = IF Len(dets) > 0 THEN snapshots + 1 ELSE snapshots
    /\ video_writes' = video_writes + 1
    /\ outstanding' = outstanding - 1
    /\ pc' = "waitkey"
    /\ UNCHANGED <<not_main_vars, aux_vars, cam_vars, frame_vars, box_vars, alerts, end_vars>>

\* lines 268-270: cv2.waitKey(1) returns another key than q, or none
NoQuitKey ==
    /\ pc = "waitkey"
    /\ pc' = "request"
    /\ dets' = <<>>
    /\ idx' = 0
    /\ dist_cm' = None
    /\ visited' = <<>>
    /\ UNCHANGED <<not_main_vars, aux_vars, cam_vars, outstanding, frame_vars, sink_vars, end_vars>>

\* control leaves the while loop: the buffers, the boxes and the sinks' record of the
\* cycle are never read again
LeaveLoop ==
    /\ frame_kind' = "none"
    /\ depth_buf' = NoFrame
    /\ confidence_buf' = NoFrame
    /\ depth_norm' = NoFrame
    /\ dets' = <<>>
    /\ idx' = 0
    /\ dist_cm' = None
    /\ visited' = <<>>
    /\ alerts' = <<>>
    /\ video_writes' = 0
    /\ snapshots' = 0
    /\ stalls' = 0
    /\ frame' = NoFrameData

\* lines 269-270: q was pressed: break
QuitKey ==
    /\ pc = "waitkey"
    /\ pc' = "quit_stop"
    /\ LeaveLoop
    /\ UNCHANGED <<not_main_vars, ret, start_calls, requested, cam_vars, outstanding, end_vars>>

\* a KeyboardInterrupt arrives while main is inside the try statement (lines 136-274)
TryPcs == {"request", "detect", "box", "alert", "waitkey", "quit_stop", "quit_close",
           "quit_release"}

KeyboardInterrupt ==
    /\ pc \in TryPcs
    /\ ~interrupted
    /\ interrupted' = TRUE
    /\ pc' = "int_stop"
    /\ LeaveLoop
    /\ UNCHANGED <<not_main_vars, ret, start_calls, requested, cam_vars, outstanding, err, fatal,
                   exit_code>>

\* cam.stop(), lines 272 and 276
CamStop ==
    /\ pc \in {"quit_stop", "int_stop"}
    /\ streaming' = FALSE
    /\ stop_calls' = stop_calls + 1
    /\ pc' = IF pc = "quit_stop" THEN "quit_close" ELSE "int_close"
    /\ UNCHANGED <<not_main_vars, aux_vars, cam_open, out_open, close_calls, release_calls, outstanding, frame_vars,
                   box_vars, sink_vars, end_vars>>

\* cam.close(), lines 273 and 277
CamClose ==
    /\ pc \in {"quit_close", "int_close"}
    /\ cam_open' = FALSE
    /\ close_calls' = close_calls + 1
    /\ pc' = IF pc = "quit_close" THEN "quit_release" ELSE "int_release"
    /\ UNCHANGED <<not_main_vars, aux_vars, streaming, out_open, stop_calls, release_calls, outstanding, frame_vars,
                   box_vars, sink_vars, end_vars>>

\* out.release(), lines 274 and 278, after which main returns
OutRelease ==
    /\ pc \in {"quit_release", "int_release"}
    /\ out_open' = FALSE
    /\ release_calls' = release_calls + 1
    /\ pc' = "exited"
    /\ exit_code' = Some(0)
    /\ UNCHANGED <<not_main_vars, aux_vars, cam_open, streaming, stop_calls, close_calls, outstanding, frame_vars,
                   box_vars, sink_vars, interrupted, err, fatal>>

Next ==
    \/ OpenCamera
    \/ StartCamera
    \/ RequestFrameNull
    \/ RequestFrameOther
    \/ RequestFrameDepth
    \/ Detect
    \/ DetectRaises
    \/ SkipBox
    \/ EstimateBox
    \/ AlertBox
    \/ AlertBoxRaises
    \/ FinishCycle
    \/ NoQuitKey
    \/ QuitKey
    \/ KeyboardInterrupt
    \/ CamStop
    \/ CamClose
    \/ OutRelease

Spec == Init /\ [][Next]_vars

----------------------------------------------------------------------------
(* The estimator taken alone, lines 207-225: valid is given, dist_cm is computed *)

main_vars == <<pc, cam_vars, outstanding, frame_vars, box_vars, sink_vars, end_vars, aux_vars>>
not_va_vars == <<main_vars, est_vars, nav_vars, pub_vars>>
not_nav_vars == <<main_vars, est_vars, va_vars, pub_vars>>
not_pub_vars == <<main_vars, est_vars, va_vars, nav_vars>>

EstInit ==
    /\ pc = "open"
    /\ cam_open = FALSE
    /\ streaming = FALSE
    /\ out_open = FALSE
    /\ stop_calls = 0
    /\ close_calls = 0
    /\ release_calls = 0
    /\ outstanding = 0
    /\ frame_kind = "none"
    /\ depth_buf = NoFrame
    /\ confidence_buf = NoFrame
    /\ depth_norm = NoFrame
    /\ dets = <<>>
    /\ idx = 0
    /\ dist_cm = None
    /\ visited = <<>>
    /\ alerts = <<>>
    /\ video_writes = 0
    /\ snapshots = 0
    /\ interrupted = FALSE
    /\ err = ""
    /\ fatal = <<>>
    /\ exit_code = <<>>
    /\ ret = 0
    /\ start_calls = 0
    /\ requested = FALSE
    /\ stalls = 0
    /\ frame = NoFrameData
    /\ est_pc = "in"
    /\ est_valid \in ValidInputs
    /\ est_dist = None
    /\ VaIdle
    /\ NavIdle
    /\ PubIdle

\* lines 209-225: numpy orders the array itself for the percentile and the median
EstimateStep ==
    /\ est_pc = "in"
    /\ est_dist' = EstimateValid(SortedDepths(DOMAIN est_valid, est_valid))
    /\ est_pc' = "done"
    /\ UNCHANGED <<est_valid, main_vars, va_vars, nav_vars, pub_vars>>

EstNext == EstimateStep

EstSpec == EstInit /\ [][EstNext]_vars

----------------------------------------------------------------------------
(* src/voice_assistant.py: parse_llm_json, lines 235-279 *)

\* Values of the JSON fields and of the Python variables read from them, as strings:
\* "<absent>" the key is missing, "<None>" JSON null and Python None, "<number>" a value
\* that is not a string, "<dict>" an object with a destination, "<raw_text>" the raw
\* text of the LLM itself; every other string is that string.
FieldModes == {"<absent>", "<None>", "reply", "tool_call", "chat", "<number>"}
FieldReplies == {"<absent>", "<None>", "On my way.", "<number>"}
FieldTools == {"<absent>", "<None>", "navigation", "lights"}
FieldArguments == {"<absent>", "<None>", "<dict>", "<string>"}

\* how the text is wrapped: not at all, in ``` ... ```, in ```json ... ```, or with an
\* opening ``` that is never closed
Fences == {"none", "plain", "json", "open"}

\* what the LLM returns: a JSON object with some of the four fields, a JSON value that
\* is no object, or text that is no JSON
RawTexts ==
    [fence : Fences, kind : {"object"}, mode : FieldModes, reply : FieldReplies,
     tool : FieldTools, arguments : FieldArguments]
    \cup [fence : Fences, kind : {"notjson", "list"}, mode : {""}, reply : {""},
          tool : {""}, arguments : {""}]

\* strip_code_fences, lines 242-250: the fence goes only when the text both starts and
\* ends with it
StripCodeFences(t) ==
    [t EXCEPT !.fence = IF t.fence \in {"plain", "json"} THEN "none" ELSE t.fence]

\* json.loads raises on what is left of a fence and on text that is no JSON
JsonLoadsRaises(t) == t.fence # "none" \/ t.kind = "notjson"

\* obj.get(key, default)
DictGet(v, default) == IF v = "<absent>" THEN default ELSE v

\* lines 274-279
FallbackReply ==
    [mode |-> "reply", reply |-> "<raw_text>", tool |-> "<None>", arguments |-> "<None>"]

\* the parser without the test of line 261: the mode goes through as it came
ParseLlmJson_AnyMode(raw_text) ==
    LET obj == StripCodeFences(raw_text)
    IN IF JsonLoadsRaises(obj) \/ obj.kind # "object" THEN FallbackReply
       ELSE [mode |-> DictGet(obj.mode, "reply"),
             reply |-> IF DictGet(obj.reply, "") = "<None>" THEN "" ELSE DictGet(obj.reply, ""),
             tool |-> DictGet(obj.tool, "<None>"),
             arguments |-> DictGet(obj.arguments, "<None>")]

\* lines 252-279; obj.get on a JSON value that is no object raises AttributeError,
\* which the handler of line 271 takes like a failure of json.loads
ParseLlmJson(raw_text) ==
    LET obj == StripCodeFences(raw_text)
    IN IF JsonLoadsRaises(obj) \/ obj.kind # "object" THEN FallbackReply
       ELSE LET mode == DictGet(obj.mode, "reply")
                reply == DictGet(obj.reply, "")
            IN [mode |-> IF mode \notin {"reply", "tool_call"} THEN "reply" ELSE mode,
                reply |-> IF reply = "<None>" THEN "" ELSE reply,
                tool |-> DictGet(obj.tool, "<None>"),
                arguments |-> DictGet(obj.arguments, "<None>")]

----------------------------------------------------------------------------
(* src/voice_assistant.py: run_voice_assistant, lines 349-407, with              *)
(* listen_for_wake_word, lines 105-129, and call_navigation_tool, lines 286-342. *)
(* va_procs is the list of the subprocesses started so far, each "running",      *)
(* "exited" or "terminated"; navigation_process is the index of the one the      *)
(* global names.  va_speaks and va_tool_calls count the calls of tts.speak and   *)
(* of call_navigation_tool since the last return of listen_for_wake_word;        *)
(* va_err is the step and the type of the exception that left the loop.          *)

\* subprocesses started in one run
MaxProcs == 2

\* what porcupine.process returns for one audio frame: -1 no keyword, 0 the keyword
KeywordIndexes == {-1, 0}

\* what Whisper hears
Transcriptions == {"", "take me to the library"}

\* what the geocoding request of lines 317-324 comes to
GeocodeOutcomes == {"raises", "empty", "found"}

IsStr(v) == v \notin {"<None>", "<number>"}

Running(procs) == {i \in DOMAIN procs : procs[i] = "running"}

VaInit ==
    /\ MainIdle
    /\ EstIdle
    /\ NavIdle
    /\ PubIdle
    /\ va_pc = "wake"
    /\ keyword_index = None
    /\ va_text = ""
    /\ raw_response = NoText
    /\ parsed = NoParsed
    /\ reply_text = ""
    /\ navigation_process = None
    /\ va_procs = <<>>
    /\ va_speaks = 0
    /\ va_tool_calls = 0
    /\ va_err = <<>>

\* the locals of one pass of the loop are dead once it is over
NextIteration ==
    /\ va_pc' = "wake"
    /\ keyword_index' = None
    /\ va_text' = ""
    /\ raw_response' = NoText
    /\ parsed' = NoParsed
    /\ reply_text' = ""

\* the loop is left by an exception of the given step
Raise(step, type) ==
    /\ va_pc' = "ended"
    /\ va_err' = <<step, type>>

\* tts.speak, lines 185-190, followed by the next pass of the loop; pyttsx3 may raise
SpeakAndContinue(tts_ok) ==
    /\ va_speaks' = va_speaks + 1
    /\ IF tts_ok
          THEN NextIteration /\ va_err' = va_err
          ELSE /\ Raise("tts", "RuntimeError")
               /\ UNCHANGED <<keyword_index, va_text, raw_response, parsed, reply_text>>

\* lines 119-126: one audio frame
WakeFrame ==
    /\ va_pc = "wake"
    /\ \E k \in KeywordIndexes :
          /\ keyword_index' = Some(k)
          /\ va_pc' = IF k >= 0 THEN "record" ELSE "wake"
    /\ va_speaks' = 0
    /\ va_tool_calls' = 0
    /\ UNCHANGED <<va_text, raw_response, parsed, reply_text, navigation_process,
                   va_procs, va_err, not_va_vars>>

\* lines 113-129: opening or reading the stream, or porcupine.process, raises; the
\* handler prints the error and the function returns
WakeRaises ==
    /\ va_pc = "wake"
    /\ va_pc' = "record"
    /\ va_speaks' = 0
    /\ va_tool_calls' = 0
    /\ UNCHANGED <<keyword_index, va_text, raw_response, parsed, reply_text,
                   navigation_process, va_procs, va_err, not_va_vars>>

\* line 363
RecordAudio ==
    /\ va_pc = "record"
    /\ va_pc' = "stt"
    /\ UNCHANGED <<keyword_index, va_text, raw_response, parsed, reply_text,
                   navigation_process, va_procs, va_speaks, va_tool_calls, va_err,
                   not_va_vars>>

\* line 363: sd.rec or sd.wait raises, outside every try
RecordRaises ==
    /\ va_pc = "record"
    /\ Raise("record", "PortAudioError")
    /\ UNCHANGED <<keyword_index, va_text, raw_response, parsed, reply_text,
                   navigation_process, va_procs, va_speaks, va_tool_calls,
                   not_va_vars>>

\* lines 366-367 and 374: a transcription that is not empty
Transcribe ==
    /\ va_pc = "stt"
    /\ \E text \in Transcriptions \ {""} : va_text' = text
    /\ va_pc' = "llm"
    /\ UNCHANGED <<keyword_index, raw_response, parsed, reply_text, navigation_process,
                   va_procs, va_speaks, va_tool_calls, va_err, not_va_vars>>

\* lines 374-376: nothing was heard
TranscribeEmpty ==
    /\ va_pc = "stt"
    /\ "" \in Transcriptions
    /\ \E tts_ok \in BOOLEAN : SpeakAndContinue(tts_ok)
    /\ UNCHANGED <<navigation_process, va_procs, va_tool_calls, not_va_vars>>

\* lines 368-372
TranscribeRaises ==
    /\ va_pc = "stt"
    /\ \E tts_ok \in BOOLEAN : SpeakAndContinue(tts_ok)
    /\ UNCHANGED <<navigation_process, va_procs, va_tool_calls, not_va_vars>>

\* lines 384-398: the LLM answers, the answer is parsed and the tool is chosen
AskLlm ==
    /\ va_pc = "llm"
    /\ \E raw \in RawTexts :
          /\ raw_response' = raw
          /\ parsed' = ParseLlmJson(raw)
    /\ reply_text' = parsed'.reply
    /\ va_pc' = IF parsed'.mode = "tool_call" /\ parsed'.tool = "navigation"
                 THEN "tool" ELSE "speak"
    /\ UNCHANGED <<keyword_index, va_text, navigation_process, va_procs, va_speaks,
                   va_tool_calls, va_err, not_va_vars>>

\* lines 386-390
AskLlmRaises ==
    /\ va_pc = "llm"
    /\ \E tts_ok \in BOOLEAN : SpeakAndContinue(tts_ok)
    /\ UNCHANGED <<navigation_process, va_procs, va_tool_calls, not_va_vars>>

\* lines 327-329: terminate() on the process the global names, if poll() says it runs
TerminatePrevious(procs) ==
    IF navigation_process # None /\ procs[navigation_process[1]] = "running"
    THEN [procs EXCEPT ![navigation_process[1]] = "terminated"]
    ELSE procs

\* lines 402-405: the handler of the loop adds a sentence to the reply, which raises
\* TypeError when the reply of the LLM is not a string
ToolFailed ==
    IF IsStr(reply_text)
    THEN /\ reply_text' = "<reply> However, there was an error starting navigation."
         /\ va_pc' = "speak"
         /\ va_err' = va_err
    ELSE /\ Raise("tool", "TypeError")
         /\ reply_text' = reply_text

\* lines 400-401 with call_navigation_tool, lines 310-324: the arguments are a dict and
\* the geocoding request fails (raise_for_status, a body that is no JSON, a first
\* result without lat and lon)
NavigationRequestFails ==
    /\ va_pc = "tool"
    /\ parsed.arguments = "<dict>"
    /\ "raises" \in GeocodeOutcomes
    /\ va_tool_calls' = va_tool_calls + 1
    /\ ToolFailed
    /\ UNCHANGED <<keyword_index, va_text, raw_response, parsed, navigation_process,
                   va_procs, va_speaks, not_va_vars>>

\* lines 321-322: the geocoder knows no such place
NavigationNoResult ==
    /\ va_pc = "tool"
    /\ parsed.arguments = "<dict>"
    /\ "empty" \in GeocodeOutcomes
    /\ va_tool_calls' = va_tool_calls + 1
    /\ va_pc' = "speak"
    /\ UNCHANGED <<keyword_index, va_text, raw_response, parsed, reply_text,
                   navigation_process, va_procs, va_speaks, va_err, not_va_vars>>

\* lines 324-342: the place is found, the previous process is terminated if it still
\* runs and a new one is started
NavigationStarts ==
    /\ va_pc = "tool"
    /\ parsed.arguments = "<dict>"
    /\ "found" \in GeocodeOutcomes
    /\ Len(va_procs) < MaxProcs
    /\ va_tool_calls' = va_tool_calls + 1
    /\ va_procs' = Append(TerminatePrevious(va_procs), "running")
    /\ navigation_process' = Some(Len(va_procs) + 1)
    /\ va_pc' = "speak"
    /\ UNCHANGED <<keyword_index, va_text, raw_response, parsed, reply_text, va_speaks,
                   va_err, not_va_vars>>

\* lines 310 and 327-333: the arguments are no dict, so lat and lon are never bound;
\* the previous process is terminated and str(lat) raises UnboundLocalError
NavigationUnbound ==
    /\ va_pc = "tool"
    /\ parsed.arguments # "<dict>"
    /\ va_tool_calls' = va_tool_calls + 1
    /\ va_procs' = TerminatePrevious(va_procs)
    /\ ToolFailed
    /\ UNCHANGED <<keyword_index, va_text, raw_response, parsed, navigation_process,
                   va_speaks, not_va_vars>>

\* line 407
SpeakReply ==
    /\ va_pc = "speak"
    /\ \E tts_ok \in BOOLEAN : SpeakAndContinue(tts_ok)
    /\ UNCHANGED <<navigation_process, va_procs, va_tool_calls, not_va_vars>>

\* a navigation subprocess ends by itself (arrival, error)
NavProcessExits ==
    /\ va_pc \notin {"idle", "ended"}
    /\ \E i \in Running(va_procs) : va_procs' = [va_procs EXCEPT ![i] = "exited"]
    /\ UNCHANGED <<va_pc, keyword_index, va_text, raw_response, parsed, reply_text,
                   navigation_process, va_speaks, va_tool_calls, va_err, not_va_vars>>

CallNavigationTool ==
    \/ NavigationRequestFails
    \/ NavigationNoResult
    \/ NavigationStarts
    \/ NavigationUnbound

VaNext ==
    \/ WakeFrame
    \/ WakeRaises
    \/ RecordAudio
    \/ RecordRaises
    \/ Transcribe
    \/ TranscribeEmpty
    \/ TranscribeRaises
    \/ AskLlm
    \/ AskLlmRaises
    \/ CallNavigationTool
    \/ SpeakReply
    \/ NavProcessExits

VaSpec == VaInit /\ [][VaNext]_vars

----------------------------------------------------------------------------
(* src/GPS_Module/navigation.py: GPSNavigator.navigate_loop, lines 137-219, with  *)
(* get_route_from_osrm, lines 68-90, parse_gps_sentence, lines 92-104, and        *)
(* print_next_instruction, lines 113-135.  One action is one pass of the loop of  *)
(* line 152.  An exception of the TTS engine inside print_next_instruction is     *)
(* taken by the handler of line 203 after the instruction was printed and after   *)
(* destination_reached was set, and changes nothing else.                         *)

WAYPOINT_THRESHOLD == 15

\* valid fixes handled in one run
MaxFixes == 6

\* steps of a route
MaxSteps == 2

\* All positions of the model lie on one meridian; a latitude is counted in metres
\* from the equator, 0 being the equator (which parse_gps_sentence takes for no fix).
Meridian == 7
WaypointLats == {100, 130}
FixLats == {101, 115, 116, 145}

\* a step of the route is the last point of its geometry
Steps == [lat : WaypointLats, lon : {Meridian}]
Routes == SeqsUpTo(Steps, MaxSteps)

\* what ser.readline() gives: a GGA sentence, another sentence, an empty line, bytes that
\* are no sentence
NavLines ==
    [type : {"GGA"}, lat : FixLats \cup {0}, lon : {0, Meridian}]
    \cup [type : {"RMC", "junk"}, lat : {101}, lon : {Meridian}]
    \cup [type : {"empty"}, lat : {0}, lon : {0}]

\* readline raised
ReadError == [type |-> "error", lat |-> 0, lon |-> 0]

\* what a route request comes to: a route, no route, an exception before the steps are
\* stored, an exception after they are stored (a route without distance or duration)
GetRouteOutcomes == {"ok", "noroute", "raises", "incomplete"}

Abs(x) == IF x < 0 THEN -x ELSE x

\* lines 50-57, on one meridian: the length of the arc between the two latitudes
HaversineDistance(lat1, lon1, lat2, lon2) == Abs(lat2 - lat1)

\* lines 92-104
ParseGpsSentence(sentence) ==
    IF sentence.type = "GGA" /\ sentence.lat # 0 /\ sentence.lon # 0
    THEN <<Some(sentence.lat), Some(sentence.lon)>>
    ELSE <<None, None>>

\* line 159
ValidFix(sentence) ==
    ParseGpsSentence(sentence)[1] # None /\ ParseGpsSentence(sentence)[2] # None

\* line 168 with two fixes in place of three
GpsLocked_Two(count) == count >= 2

\* line 168
GpsLocked(count) == count >= 3

\* line 187 with <= in place of <
Reached_Inclusive(sentence, step) ==
    HaversineDistance(sentence.lat, sentence.lon, step.lat, step.lon) <= WAYPOINT_THRESHOLD

\* lines 180-187
Reached(sentence, step) ==
    HaversineDistance(sentence.lat, sentence.lon, step.lat, step.lon) < WAYPOINT_THRESHOLD

\* lines 113-135, called with the index and the steps the call finds
PrintNextInstruction(index, steps) ==
    IF index >= Len(steps)
    THEN /\ destination_reached' = TRUE
         /\ announced' = Append(announced, [index |-> index, said |-> "arrived"])
    ELSE /\ destination_reached' = destination_reached
         /\ announced' = Append(announced, [index |-> index, said |-> "instruction"])

NavInit ==
    /\ MainIdle
    /\ EstIdle
    /\ VaIdle
    /\ PubIdle
    /\ nav_pc = "open"
    /\ ser = "none"
    /\ nav_line = NoLine
    /\ route_fetched = FALSE
    /\ gps_fix_count = 0
    /\ route_steps = <<>>
    /\ current_step_index = 0
    /\ destination_reached = FALSE
    /\ current_lat = None
    /\ current_lon = None
    /\ nav_fixes = 0
    /\ route_requests = 0
    /\ announced = <<>>
    /\ nav_exit = ""

\* lines 146-150
OpenSerial ==
    /\ nav_pc = "open"
    /\ ser' = "open"
    /\ nav_pc' = "loop"
    /\ UNCHANGED <<nav_line, route_fetched, gps_fix_count, route_steps, current_step_index,
                   destination_reached, current_lat, current_lon, nav_fixes,
                   route_requests, announced, nav_exit, not_nav_vars>>

\* lines 146 and 207-219: serial.Serial raises, ser is never bound
OpenSerialFails ==
    /\ nav_pc = "open"
    /\ nav_pc' = "exited"
    /\ nav_exit' = "serial error"
    /\ UNCHANGED <<ser, nav_line, route_fetched, gps_fix_count, route_steps,
                   current_step_index, destination_reached, current_lat, current_lon,
                   nav_fixes, route_requests, announced, not_nav_vars>>

\* the loop of line 152 goes through one more pass
InLoop == nav_pc = "loop" /\ ~destination_reached

\* lines 154-159 and 201: a line that gives no fix
ReadNoFix ==
    /\ InLoop
    /\ \E l \in NavLines : ~ValidFix(l) /\ nav_line' = l
    /\ UNCHANGED <<nav_pc, ser, route_fetched, gps_fix_count, route_steps,
                   current_step_index, destination_reached, current_lat, current_lon,
                   nav_fixes, route_requests, announced, nav_exit, not_nav_vars>>

\* lines 154 and 203-205: readline raises (SerialException is an Exception), the inner
\* handler prints the error and the loop goes on
ReadRaises ==
    /\ InLoop
    /\ nav_line' = ReadError
    /\ UNCHANGED <<nav_pc, ser, route_fetched, gps_fix_count, route_steps,
                   current_step_index, destination_reached, current_lat, current_lon,
                   nav_fixes, route_requests, announced, nav_exit, not_nav_vars>>

\* lines 154-161: a line that gives a fix
ReadFix(l) ==
    /\ InLoop
    /\ nav_fixes < MaxFixes
    /\ ValidFix(l)
    /\ nav_line' = l
    /\ current_lat' = ParseGpsSentence(l)[1]
    /\ current_lon' = ParseGpsSentence(l)[2]
    /\ nav_fixes' = nav_fixes + 1

\* lines 164-168: one of the first fixes
FixCounted ==
    /\ ~route_fetched
    /\ ~GpsLocked(gps_fix_count + 1)
    /\ \E l \in NavLines : ReadFix(l)
    /\ gps_fix_count' = gps_fix_count + 1
    /\ UNCHANGED <<nav_pc, ser, route_fetched, route_steps, current_step_index,
                   destination_reached, route_requests, announced, nav_exit, not_nav_vars>>

\* lines 164-173 with 85-90: the request gives no route
FixRouteFails ==
    /\ ~route_fetched
    /\ GpsLocked(gps_fix_count + 1)
    /\ \E l \in NavLines : ReadFix(l)
    /\ GetRouteOutcomes \cap {"noroute", "raises"} # {}
    /\ gps_fix_count' = gps_fix_count + 1
    /\ route_requests' = route_requests + 1
    /\ UNCHANGED <<nav_pc, ser, route_fetched, route_steps, current_step_index,
                   destination_reached, announced, nav_exit, not_nav_vars>>

\* lines 164-173 with 75-90: the steps are stored, then a print of line 81 or 82 raises
\* and the request returns False
FixRouteIncomplete ==
    /\ ~route_fetched
    /\ GpsLocked(gps_fix_count + 1)
    /\ \E l \in NavLines : ReadFix(l)
    /\ "incomplete" \in GetRouteOutcomes
    /\ gps_fix_count' = gps_fix_count + 1
    /\ route_requests' = route_requests + 1
    /\ \E r \in Routes : route_steps' = r
    /\ current_step_index' = 0
    /\ UNCHANGED <<nav_pc, ser, route_fetched, destination_reached, announced, nav_exit,
                   not_nav_vars>>

\* lines 164-173 with 75-84: the route is fetched and its first instruction announced
FixRouteFetched ==
    /\ ~route_fetched
    /\ GpsLocked(gps_fix_count + 1)
    /\ \E l \in NavLines : ReadFix(l)
    /\ "ok" \in GetRouteOutcomes
    /\ gps_fix_count' = gps_fix_count + 1
    /\ route_requests' = route_requests + 1
    /\ \E r \in Routes : route_steps' = r
    /\ current_step_index' = 0
    /\ route_fetched' = TRUE
    /\ PrintNextInstruction(current_step_index', route_steps')
    /\ UNCHANGED <<nav_pc, ser, nav_exit, not_nav_vars>>

\* lines 176-190: the fix is at the end of the current step
FixAdvance ==
    /\ route_fetched
    /\ current_step_index < Len(route_steps)
    /\ \E l \in NavLines :
          /\ ReadFix(l)
          /\ Reached(l, route_steps[current_step_index + 1])
    /\ current_step_index' = current_step_index + 1
    /\ PrintNextInstruction(current_step_index', route_steps)
    /\ UNCHANGED <<nav_pc, ser, route_fetched, gps_fix_count, route_steps, route_requests,
                   nav_exit, not_nav_vars>>

\* lines 176-199: the fix is somewhere else
FixOnTheWay ==
    /\ route_fetched
    /\ current_step_index < Len(route_steps)
    /\ \E l \in NavLines :
          /\ ReadFix(l)
          /\ ~Reached(l, route_steps[current_step_index + 1])
    /\ UNCHANGED <<nav_pc, ser, route_fetched, gps_fix_count, route_steps,
                   current_step_index, destination_reached, route_requests, announced,
                   nav_exit, not_nav_vars>>

\* lines 152 and 217-219: the loop is over and the port is closed
LoopExit ==
    /\ nav_pc = "loop"
    /\ destination_reached
    /\ ser' = "closed"
    /\ nav_pc' = "exited"
    /\ nav_exit' = "arrival"
    /\ UNCHANGED <<nav_line, route_fetched, gps_fix_count, route_steps, current_step_index,
                   destination_reached, current_lat, current_lon, nav_fixes,
                   route_requests, announced, not_nav_vars>>

\* Ctrl-C without the finally clause of lines 217-219
NavKeyboardInterrupt_NoFinally ==
    /\ nav_pc \in {"open", "loop"}
    /\ nav_pc' = "exited"
    /\ nav_exit' = "keyboard interrupt"
    /\ UNCHANGED <<ser, nav_line, route_fetched, gps_fix_count, route_steps,
                   current_step_index, destination_reached, current_lat, current_lon,
                   nav_fixes, route_requests, announced, not_nav_vars>>

\* lines 214-219: Ctrl-C inside the try statement; the port is closed if it was opened
NavKeyboardInterrupt ==
    /\ nav_pc \in {"open", "loop"}
    /\ nav_pc' = "exited"
    /\ nav_exit' = "keyboard interrupt"
    /\ ser' = IF ser = "open" THEN "closed" ELSE ser
    /\ UNCHANGED <<nav_line, route_fetched, gps_fix_count, route_steps, current_step_index,
                   destination_reached, current_lat, current_lon, nav_fixes,
                   route_requests, announced, not_nav_vars>>

NavNext ==
    \/ OpenSerial
    \/ OpenSerialFails
    \/ ReadNoFix
    \/ ReadRaises
    \/ FixCounted
    \/ FixRouteFails
    \/ FixRouteIncomplete
    \/ FixRouteFetched
    \/ FixAdvance
    \/ FixOnTheWay
    \/ LoopExit
    \/ NavKeyboardInterrupt

NavSpec == NavInit /\ [][NavNext]_vars

----------------------------------------------------------------------------
(* src/GPS_Module/aws_gps_publisher.py: the thread gps_reader, lines 92-112, with *)
(* parse_gps_data, lines 30-90, beside the loop of main, lines 177-245.  The two  *)
(* run under the interpreter lock, which may pass from one to the other between   *)
(* any two statements: every write of parse_gps_data into gps_data and every read *)
(* of main out of it is a step of its own.  gps_lock (line 28) is never acquired. *)
(* The sentences are numbered as they are read, and the value a sentence carries  *)
(* for a field is written as the number of the sentence.                          *)

\* sentences read in one run
MaxSentences == 3

\* payloads handed to mqtt_publish in one run
MaxPublished == 2

\* a field of a sentence: a number, nothing, or text that float() refuses
FieldForms == {"ok", "empty", "bad"}

\* satellites a GSA sentence lists
SatellitesInUse == 4

GpsSentences ==
    [type : {"GGA"}, fix : {1}, lat : FieldForms, lon : FieldForms, alt : {"ok", "bad"},
     hdop : {"ok"}]
    \cup [type : {"GGA"}, fix : {0}, lat : {"ok"}, lon : {"ok"}, alt : {"ok"}, hdop : {"ok"}]
    \cup [type : {"GSA", "RMC", "junk"}, fix : {0}, lat : {""}, lon : {""}, alt : {""},
          hdop : {""}]

PubInit ==
    /\ MainIdle
    /\ EstIdle
    /\ VaIdle
    /\ NavIdle
    /\ gps_data = NoGpsData
    /\ rd_pc = "open"
    /\ rd_line = NoSentence
    /\ rd_seq = 0
    /\ rd_ret = None
    /\ pub_pc = "connect"
    /\ payload = NoPayload
    /\ counter = 0
    /\ published = None

\* lines 96-97
ReaderOpens ==
    /\ rd_pc = "open"
    /\ rd_pc' = "read"
    /\ UNCHANGED <<gps_data, rd_line, rd_seq, rd_ret, pub_pc, payload, counter, published,
                   not_pub_vars>>

\* lines 96 and 108-112: serial.Serial raises; ser is unbound in the finally clause and
\* the thread dies
ReaderOpenFails ==
    /\ rd_pc = "open"
    /\ rd_pc' = "dead"
    /\ UNCHANGED <<gps_data, rd_line, rd_seq, rd_ret, pub_pc, payload, counter, published,
                   not_pub_vars>>

\* lines 101-104 with 33-43 and 76-87: a sentence is read; a GGA sentence with a fix
\* goes on to its fields, every other one is done with at once
ReadSentence ==
    /\ rd_pc = "read"
    /\ rd_seq < MaxSentences
    /\ rd_seq' = rd_seq + 1
    /\ \E l \in GpsSentences :
          /\ rd_line' = l
          /\ IF l.type = "GGA" /\ l.fix # 0
                THEN /\ rd_pc' = "latitude"
                     /\ rd_ret' = None
                     /\ gps_data' = gps_data
                ELSE /\ rd_pc' = "read"
                     /\ rd_ret' = Some(l.type = "GSA")
                     /\ gps_data' = IF l.type = "GSA"
                                     THEN [gps_data EXCEPT !.satellites = SatellitesInUse]
                                     ELSE gps_data
    /\ UNCHANGED <<pub_pc, payload, counter, published, not_pub_vars>>

\* one field of the GGA sentence, lines 46-69: written if it is a number, passed over
\* if it is empty; float() raises ValueError on anything else and line 73 returns False
WriteField(field, form, next) ==
    /\ gps_data' = IF form = "ok" THEN [gps_data EXCEPT ![field] = Some(rd_seq)]
                    ELSE gps_data
    /\ rd_pc' = IF form = "bad" THEN "read" ELSE next
    /\ rd_ret' = IF form = "bad" THEN Some(FALSE)
                  ELSE IF next = "read" THEN Some(TRUE) ELSE rd_ret

\* lines 46-52
WriteLatitude ==
    /\ rd_pc = "latitude"
    /\ WriteField("latitude", rd_line.lat, "longitude")
    /\ UNCHANGED <<rd_line, rd_seq, pub_pc, payload, counter, published, not_pub_vars>>

\* lines 55-61
WriteLongitude ==
    /\ rd_pc = "longitude"
    /\ WriteField("longitude", rd_line.lon, "altitude")
    /\ UNCHANGED <<rd_line, rd_seq, pub_pc, payload, counter, published, not_pub_vars>>

\* lines 64-65
WriteAltitude ==
    /\ rd_pc = "altitude"
    /\ WriteField("altitude", rd_line.alt, "hdop")
    /\ UNCHANGED <<rd_line, rd_seq, pub_pc, payload, counter, published, not_pub_vars>>

\* lines 68-71
WriteHdop ==
    /\ rd_pc = "hdop"
    /\ WriteField("hdop", rd_line.hdop, "read")
    /\ UNCHANGED <<rd_line, rd_seq, pub_pc, payload, counter, published, not_pub_vars>>

\* lines 192-204
MqttConnect ==
    /\ pub_pc = "connect"
    /\ pub_pc' = "check"
    /\ UNCHANGED <<gps_data, rd_pc, rd_line, rd_seq, rd_ret, payload, counter, published,
                   not_pub_vars>>

\* lines 192-195: main returns and the daemon thread ends with it
MqttConnectFails ==
    /\ pub_pc = "connect"
    /\ pub_pc' = "exited"
    /\ rd_pc' = "dead"
    /\ UNCHANGED <<gps_data, rd_line, rd_seq, rd_ret, payload, counter, published,
                   not_pub_vars>>

\* lines 211-212: the interval is over and both coordinates are there
CheckFix ==
    /\ pub_pc = "check"
    /\ counter < MaxPublished
    /\ gps_data.latitude # None
    /\ gps_data.longitude # None
    /\ pub_pc' = "latitude"
    /\ UNCHANGED <<gps_data, rd_pc, rd_line, rd_seq, rd_ret, payload, counter, published,
                   not_pub_vars>>

\* line 217
ReadLatitude ==
    /\ pub_pc = "latitude"
    /\ payload' = [payload EXCEPT !.latitude = gps_data.latitude]
    /\ pub_pc' = "longitude"
    /\ UNCHANGED <<gps_data, rd_pc, rd_line, rd_seq, rd_ret, counter, published,
                   not_pub_vars>>

\* line 218
ReadLongitude ==
    /\ pub_pc = "longitude"
    /\ payload' = [payload EXCEPT !.longitude = gps_data.longitude]
    /\ pub_pc' = "rest"
    /\ UNCHANGED <<gps_data, rd_pc, rd_line, rd_seq, rd_ret, counter, published,
                   not_pub_vars>>

\* lines 219-235: the other fields are read and the payload goes to mqtt_publish, which
\* may fail
Publish ==
    /\ pub_pc = "rest"
    /\ \E ok \in BOOLEAN :
          published' =
              IF ok THEN Some([payload EXCEPT !.altitude = gps_data.altitude,
                                              !.satellites = gps_data.satellites,
                                              !.hdop = gps_data.hdop])
              ELSE published
    /\ payload' = NoPayload
    /\ counter' = counter + 1
    /\ pub_pc' = "check"
    /\ UNCHANGED <<gps_data, rd_pc, rd_line, rd_seq, rd_ret, not_pub_vars>>

\* lines 241-245: Ctrl-C ends main and the daemon thread with it
PubKeyboardInterrupt ==
    /\ pub_pc \in {"check", "latitude", "longitude", "rest"}
    /\ pub_pc' = "exited"
    /\ rd_pc' = "dead"
    /\ UNCHANGED <<gps_data, rd_line, rd_seq, rd_ret, payload, counter, published,
                   not_pub_vars>>

GpsReader ==
    \/ ReaderOpens
    \/ ReaderOpenFails
    \/ ReadSentence
    \/ WriteLatitude
    \/ WriteLongitude
    \/ WriteAltitude
    \/ WriteHdop

PubMain ==
    \/ MqttConnect
    \/ MqttConnectFails
    \/ CheckFix
    \/ ReadLatitude
    \/ ReadLongitude
    \/ Publish
    \/ PubKeyboardInterrupt

PubNext == GpsReader \/ PubMain

PubSpec == PubInit /\ [][PubNext]_vars

----------------------------------------------------------------------------
(* Properties *)

\* the alerts detection i of the current frame has sent, in order
AlertsOf(i) == SelectSeq(alerts, LAMBDA a : a.det = i)
MsgsOf(i) == [k \in 1 .. Len(AlertsOf(i)) |-> AlertsOf(i)[k].msg]

\* the alert step of detection i has run (to its end, or to an exception)
AlertStepRan(i) == visited[i].status \in {"alerted", "raised"}
Concrete(i) == visited[i].dist # None
DistOf(i) == visited[i].dist[1]

StopMsg == "Stop, obstacle very close"
PersonMsg == "Person ahead at {d} centimeters"
ObstacleMsg == "Obstacle detected ahead at distance {d} centimeters"

\* the number a message carries is the distance rounded to the nearest centimetre
RoundedFrom(n, d) == 2 * (n * Scale - d) <= Scale /\ 2 * (d - n * Scale) <= Scale

\* C1: a detection of any class whose concrete distance is below 45 cm sends the stop
\* alert, and sends neither the person alert nor the obstacle alert.
C1_StopBelow45 ==
    \A i \in 1 .. Len(dets) :
        (AlertStepRan(i) /\ Concrete(i) /\ DistOf(i) < 45 * Scale)
            => MsgsOf(i) = <<StopMsg>>

\* a person closer than 45 cm has been given the stop alert
C1_Witness ==
    \E i \in 1 .. Len(dets) :
        /\ dets[i].cls = 0
        /\ visited[i].status = "alerted"
        /\ Concrete(i) /\ DistOf(i) < 45 * Scale
        /\ MsgsOf(i) = <<StopMsg>>

\* C5: a detection of class 0 with a concrete distance d >= 45 cm sends the person
\* alert, carrying d rounded to centimetres, exactly when 130 <= d < 250, and sends
\* nothing at all for 45 <= d < 130 and for d >= 250.
C5_PersonBandExact ==
    \A i \in 1 .. Len(dets) :
        (AlertStepRan(i) /\ dets[i].cls = 0 /\ Concrete(i) /\ DistOf(i) >= 45 * Scale)
            => IF 130 * Scale <= DistOf(i) /\ DistOf(i) < 250 * Scale
               THEN /\ MsgsOf(i) = <<PersonMsg>>
                    /\ RoundedFrom(AlertsOf(i)[1].d, DistOf(i))
               ELSE AlertsOf(i) = <<>>

\* one frame holds a person at exactly 130 cm who was announced and a person at
\* 250 cm or beyond who was not
C5_Witness ==
    \E i, j \in 1 .. Len(dets) :
        /\ dets[i].cls = 0 /\ dets[j].cls = 0
        /\ visited[i].status = "alerted" /\ visited[j].status = "alerted"
        /\ Concrete(i) /\ DistOf(i) = 130 * Scale /\ MsgsOf(i) = <<PersonMsg>>
        /\ Concrete(j) /\ DistOf(j) >= 250 * Scale /\ AlertsOf(j) = <<>>

\* C6: a detection of a class other than 0 with a concrete distance d sends the
\* obstacle alert exactly when 45 <= d < 150 (45 included, 150 excluded), and sends
\* no alert at all when d >= 150.
C6_ObstacleBandExact ==
    \A i \in 1 .. Len(dets) :
        (AlertStepRan(i) /\ dets[i].cls # 0 /\ Concrete(i))
            => /\ (\E k \in 1 .. Len(AlertsOf(i)) : AlertsOf(i)[k].msg = ObstacleMsg)
                      <=> (45 * Scale <= DistOf(i) /\ DistOf(i) < 150 * Scale)
               /\ (45 * Scale <= DistOf(i) /\ DistOf(i) < 150 * Scale)
                      => (MsgsOf(i) = <<ObstacleMsg>>
                          /\ RoundedFrom(AlertsOf(i)[1].d, DistOf(i)))
               /\ DistOf(i) >= 150 * Scale => AlertsOf(i) = <<>>

\* one frame holds an obstacle at exactly 45 cm that was announced and an obstacle at
\* exactly 150 cm that was not
C6_Witness ==
    \E i, j \in 1 .. Len(dets) :
        /\ dets[i].cls # 0 /\ dets[j].cls # 0
        /\ visited[i].status = "alerted" /\ visited[j].status = "alerted"
        /\ Concrete(i) /\ DistOf(i) = 45 * Scale /\ MsgsOf(i) = <<ObstacleMsg>>
        /\ Concrete(j) /\ DistOf(j) = 150 * Scale /\ AlertsOf(j) = <<>>

\* C2: a detection whose estimate is absent gets tier None from the alert step: no
\* alert is sent, no exception is raised, and the cycle goes on.
C2_AbsentIsQuiet ==
    \A i \in 1 .. Len(dets) :
        (AlertStepRan(i) /\ ~Concrete(i))
            => /\ visited[i].status = "alerted"
               /\ AlertsOf(i) = <<>>
               /\ pc # "crashed"

\* the run has ended after the camera was started
EndedAfterStart == pc = "crashed" \/ (pc = "exited" /\ fatal = <<>>)

\* C3: however the run leaves the frame loop once the camera was started, streaming
\* has been stopped, the camera closed and the video sink released when the process
\* exits.
C3_ReleasedOnEveryExit ==
    EndedAfterStart => (~streaming /\ ~cam_open /\ ~out_open)

\* C4: every frame handed out by requestFrame is released before the next
\* requestFrame is issued, so that at most one frame is outstanding at any time.
C4_OneFrameOutstanding ==
    /\ outstanding <= 1
    /\ pc = "request" => outstanding = 0

\* the cycle of a depth frame is over: its loop ran to the end, or the alert step of
\* one of its detections raised on its own comparison
CycleOver ==
    \/ (pc = "waitkey" /\ frame_kind = "depth")
    \/ (pc = "crashed" /\ err = "TypeError")

BoxOf(i) == ClampBox(dets[i].box)

\* the tier of section 4.3 for detection i of the frame in the buffers
TierOf(i) ==
    LET dist == IF Degenerate(BoxOf(i)) THEN None
                ELSE EstimateDistance(BoxOf(i), depth_buf, confidence_buf)
    IN IF dist = None THEN "None"
       ELSE IF dist[1] < 45 * Scale THEN "CriticalStop"
       ELSE IF dets[i].cls = 0 /\ 130 * Scale <= dist[1] /\ dist[1] < 250 * Scale
            THEN "PersonWarning"
       ELSE IF dets[i].cls # 0 /\ dist[1] < 150 * Scale THEN "ObstacleWarning"
       ELSE "None"

\* C7: in a frame cycle every detection whose tier is not None sends exactly one alert
\* and every detection whose tier is None sends none.
C7_OneAlertPerTier ==
    CycleOver =>
        \A i \in 1 .. Len(dets) :
            Len(AlertsOf(i)) = IF TierOf(i) = "None" THEN 0 ELSE 1

\* C8: a detection whose clamped box is degenerate is passed over without estimate and
\* without alert, and every detection after it in the frame is still processed.
C8_DegenerateSkipped ==
    CycleOver =>
        \A i \in 1 .. Len(dets) :
            Degenerate(BoxOf(i)) /\ visited[i].status # "pending"
                => /\ visited[i] = [status |-> "skipped", dist |-> None]
                   /\ AlertsOf(i) = <<>>
                   /\ \A j \in i + 1 .. Len(dets) :
                          visited[j].status \in {"skipped", "alerted"}

\* the valid pixels of the clamped box cb, read from the raw buffers
ValidIn(cb) ==
    {p \in Pixels :
        /\ cb.x1 <= p[1] /\ p[1] < cb.x2
        /\ cb.y1 <= p[2] /\ p[2] < cb.y2
        /\ depth_buf[p] > 0
        /\ confidence_buf[p] >= 30}

\* C9: the estimate of a non-degenerate box is absent exactly when no pixel of the box
\* has depth > 0 and confidence >= 30; otherwise it is a number of centimetres, one
\* tenth of a depth between the smallest and the largest valid depth of the box.
C9_AbsentIffNoValidPixel ==
    pc = "alert" =>
        LET valid == ValidIn(BoxOf(idx))
        IN /\ ~Degenerate(BoxOf(idx))
           /\ dist_cm = visited[idx].dist
           /\ dist_cm = None <=> valid = {}
           /\ dist_cm # None =>
                /\ Len(dist_cm) = 1
                /\ \E p \in valid : depth_buf[p] * Scale <= 10 * dist_cm[1]
                /\ \E q \in valid : 10 * dist_cm[1] <= depth_buf[q] * Scale

\* a box without any valid pixel although one of its pixels has a depth (at low
\* confidence) got no estimate, after a box of the same frame got a concrete one
C9_Witness ==
    /\ pc = "alert"
    /\ dist_cm = None
    /\ \E p \in RoiPixels(BoxOf(idx)) : depth_buf[p] > 0
    /\ \E j \in 1 .. idx - 1 : visited[j].dist # None

\* the depth buffers that differ from depth_buf only at pixels of confidence below the
\* threshold: one such pixel, or all of them, carrying another reading
AltDepths == {1, 4500}
LowConfidence == {p \in Pixels : confidence_buf[p] < 30}
Alternatives ==
    LET low == LowConfidence
    IN { [p \in Pixels |-> IF p \in ps THEN v ELSE depth_buf[p]] :
           ps \in {{q} : q \in low} \cup {low}, v \in AltDepths }

\* C10: a depth reading of confidence below the threshold influences nothing: a frame
\* that differs only in such readings gives the box the estimate this frame gives it,
\* and both frames have the gated value 0 at those pixels of the preprocessed depth.
C10_LowConfidenceIgnored ==
    /\ pc = "detect" =>
           \A alt \in Alternatives :
               LET pre == Preprocess(alt, confidence_buf, MAX_DISTANCE)
               IN /\ \A p \in LowConfidence : depth_norm[p] = 0 /\ pre[p] = 0
                  /\ depth_norm = pre
    /\ pc = "alert" =>
           LET cb == BoxOf(idx)
           IN \A alt \in Alternatives :
                  dist_cm = EstimateDistance(cb, alt, confidence_buf)

\* a box was estimated from a farther valid pixel although a low-confidence pixel of
\* the box carries a nearer reading
C10_Witness ==
    /\ pc = "alert"
    /\ dist_cm # None
    /\ \E p \in RoiPixels(BoxOf(idx)) :
           /\ confidence_buf[p] < 30
           /\ depth_buf[p] > 0
           /\ depth_buf[p] * Scale < 10 * dist_cm[1]

\* the failure messages of lines 102 and 107 have been printed
OpenFailed == fatal # <<>> /\ fatal[1] = "open"
StartFailed == fatal # <<>> /\ fatal[1] = "start"

\* no frame has been requested or processed in this run
NoFrameEver ==
    /\ ~requested
    /\ outstanding = 0
    /\ frame_kind = "none"
    /\ dets = <<>>
    /\ alerts = <<>>
    /\ video_writes = 0

\* C12: when cam.open returns a non-zero code the run ends at once in the fatal state
\* with that code reported; the camera is never started, requestFrame is never called
\* and no frame is processed.
C12_OpenFailureIsFatal ==
    /\ [][(pc = "open" /\ ret' # 0) => (pc' = "exited" /\ fatal' = <<"open", ret'>>)]_vars
    /\ [](OpenFailed => (pc = "exited" /\ start_calls = 0 /\ ~streaming /\ NoFrameEver))

\* the run has ended on the open failure with code -1
C12_Witness ==
    /\ pc = "exited"
    /\ ret = -1
    /\ fatal = <<"open", -1>>
    /\ start_calls = 0

\* C13: when cam.start returns a non-zero code after a successful open, the camera is
\* closed exactly once before the run ends, and no frame is ever requested.
C13_StartFailureCloses ==
    /\ [][(pc = "start" /\ ret' # 0)
            => (pc' = "exited" /\ fatal' = <<"start", ret'>> /\ ~cam_open'
                /\ close_calls' = close_calls + 1)]_vars
    /\ [](StartFailed => (pc = "exited" /\ close_calls = 1 /\ ~cam_open /\ NoFrameEver))

\* the run has ended on the start failure with code -1, the camera closed once
C13_Witness ==
    /\ pc = "exited"
    /\ ret = -1
    /\ fatal = <<"start", -1>>
    /\ start_calls = 1
    /\ close_calls = 1

\* C14: the exit code of the process is 0 after a shutdown caused by the quit signal
\* and is non-zero whenever the camera failed to open or failed to start.
C14_ExitCodes ==
    pc = "exited" =>
        /\ fatal = <<>> => exit_code = <<0>>
        /\ (OpenFailed \/ StartFailed) => (exit_code # <<>> /\ exit_code[1] # 0)

\* requestFrame has just returned nothing
Stalled == pc = "waitkey" /\ frame_kind = "null"

\* C15: a requestFrame that times out or returns nothing is not fatal: its cycle does
\* no detection, sends no alert and writes no video frame, the run stays in Running,
\* and unless a quit signal arrives the loop comes back to requestFrame, which can be
\* issued again, however many requests in a row returned nothing.
C15_NullFrameNotFatal ==
    /\ [][(pc = "request" /\ pc' # "request" /\ frame_kind' = "null")
            => /\ pc' = "waitkey"
               /\ dets' = <<>> /\ alerts' = <<>> /\ video_writes' = 0 /\ snapshots' = 0
               /\ outstanding' = outstanding
               /\ streaming' /\ cam_open' /\ out_open'
               /\ err' = "" /\ exit_code' = <<>>]_vars
    /\ [][Stalled => pc' \in {"waitkey", "request", "quit_stop", "int_stop"}]_vars
    /\ [](Stalled => ENABLED NoQuitKey)
    /\ []((pc = "request" /\ stalls >= 1)
            => (streaming /\ cam_open /\ exit_code = <<>>
                /\ ENABLED RequestFrameNull /\ ENABLED RequestFrameDepth))

\* after two requests in a row that returned nothing the run is about to request again
C15_Witness ==
    /\ pc = "request"
    /\ stalls >= 2
    /\ frame_kind = "null"
    /\ streaming
    /\ exit_code = <<>>

\* the shutdown sequence is running, on the q key or on the interrupt
ShutdownPcs == {"quit_stop", "quit_close", "quit_release", "int_stop", "int_close", "int_release"}

\* a quit signal has been observed: the shutdown is running or has brought the run to
\* Closed
QuitObserved == pc \in ShutdownPcs \/ (pc = "exited" /\ fatal = <<>>)

\* C16: once the quit signal is observed in Running the shutdown stops streaming,
\* closes the camera and releases the video sink, in this order and each exactly once,
\* and then the run is Closed; no frame is requested after the quit was observed.
C16_ShutdownOnceInOrder ==
    /\ [](QuitObserved
            => /\ stop_calls <= 1
               /\ close_calls <= stop_calls
               /\ release_calls <= close_calls)
    /\ []((pc = "exited" /\ fatal = <<>>)
            => /\ stop_calls = 1 /\ close_calls = 1 /\ release_calls = 1
               /\ ~streaming /\ ~cam_open /\ ~out_open)
    /\ [][QuitObserved
            => (QuitObserved' /\ requested' = requested /\ outstanding' = outstanding
                /\ frame_kind' = frame_kind)]_vars

\* the frame of the cycle in progress is a depth frame that is acquired and not yet
\* released: the cycle is between line 139 and line 266
MidCycle == pc \in {"detect", "box", "alert"}

\* C17: a quit signal, keypress or interrupt, takes effect only between cycles: when
\* the run leaves Running because of it, the cycle in progress has completed and the
\* frame it acquired has been released.
C17_QuitOnlyBetweenCycles ==
    [][(pc \notin ShutdownPcs /\ pc' \in ShutdownPcs)
        => (~MidCycle /\ pc \in {"waitkey", "request"})]_vars

\* the main loop is running
LoopPcs == {"request", "detect", "box", "alert", "waitkey"}

\* C18: an exception raised by the detector call or by a text-to-speech call is
\* swallowed for that cycle: the run stays in Running and the loop goes on to request
\* the next frame.
C18_CollaboratorFailureSwallowed ==
    err \in {"detector", "tts"} =>
        /\ pc \in LoopPcs
        /\ exit_code = <<>>
        /\ streaming /\ cam_open

\* C19: preprocessing leaves the raw depth and confidence matrices of the frame
\* unchanged: after gating, clipping and normalising, the estimator of the same cycle
\* reads the values the camera delivered, depths above the maximum range and depths at
\* low-confidence pixels included.
C19_RawBuffersUntouched ==
    /\ pc \in {"detect", "box", "alert"} =>
           /\ depth_buf = frame.depth_data
           /\ confidence_buf = frame.confidence_data
    /\ pc = "alert" =>
           dist_cm = EstimateDistance(BoxOf(idx), frame.depth_data, frame.confidence_data)

\* a box was estimated at 450 cm from a reading of 4500 mm, beyond the range of
\* 4000 mm, while a low-confidence pixel still holds its depth in the raw buffer and 0
\* in the preprocessed copy
C19_Witness ==
    /\ pc = "alert"
    /\ dist_cm = <<450 * Scale>>
    /\ \E p \in RoiPixels(BoxOf(idx)) :
           depth_buf[p] = 4500 /\ depth_buf[p] > MAX_DISTANCE /\ depth_norm[p] = 255
    /\ \E q \in Pixels :
           confidence_buf[q] < 30 /\ depth_buf[q] > 0 /\ depth_norm[q] = 0

\* every confidence of the frame is below the threshold
AllLowConfidence == \A p \in Pixels : confidence_buf[p] < 30

\* C20: every preprocessed depth sample is the depth gated, clipped to [0, maxRange]
\* and scaled by 255 / maxRange; it lies in 0 .. 255 without wrapping in the 8-bit
\* cast and is 0 wherever the confidence is below the threshold; a frame whose
\* confidences are all below the threshold gives an all-black visualisation, with no
\* error.
C20_PreprocessedRange ==
    pc = "detect" =>
        /\ \A p \in Pixels :
              LET clipped == IF depth_buf[p] > 4000 THEN 4000 ELSE depth_buf[p]
              IN /\ depth_norm[p] \in 0 .. 255
                 /\ confidence_buf[p] < 30 => depth_norm[p] = 0
                 /\ confidence_buf[p] >= 30 =>
                        /\ depth_norm[p] * 4000 <= clipped * 255
                        /\ clipped * 255 < (depth_norm[p] + 1) * 4000
        /\ AllLowConfidence =>
              /\ \A p \in Pixels : depth_norm[p] = 0
              /\ \A p \in Pixels : Visualize(depth_norm, confidence_buf)[p] = Black
        /\ err = "" /\ exit_code = <<>>

\* a frame with depth readings everywhere and every confidence below the threshold
\* has been preprocessed to all zeros, and the run is at the detector call
C20_Witness ==
    /\ pc = "detect"
    /\ AllLowConfidence
    /\ \A p \in Pixels : depth_buf[p] > 0 /\ depth_norm[p] = 0
    /\ \A p \in Pixels : Visualize(depth_norm, confidence_buf)[p] = Black

\* C21: in every cycle that processes a frame the annotated frame is written to the
\* video sink exactly once, and the snapshot is written exactly when the frame has at
\* least one detection, detections with a degenerate box or an absent distance counted.
C21_VideoOnceSnapshotIffDetection ==
    CycleOver =>
        /\ video_writes = 1
        /\ snapshots = IF Len(dets) > 0 THEN 1 ELSE 0

\* C22: for every detection that is not skipped the coordinates that cut the region of
\* interest satisfy 0 <= x1 < x2 <= W - 1 and 0 <= y1 < y2 <= H - 1, whatever the
\* detector returned, so the region is non-empty and inside the frame.
C22_ClampedBoxInsideFrame ==
    \A i \in 1 .. Len(dets) :
        visited[i].status \in {"estimated", "alerted", "raised"} =>
            LET cb == BoxOf(i)
            IN /\ 0 <= cb.x1 /\ cb.x1 < cb.x2 /\ cb.x2 <= W - 1
               /\ 0 <= cb.y1 /\ cb.y1 < cb.y2 /\ cb.y2 <= H - 1
               /\ RoiPixels(cb) # {}
               /\ RoiPixels(cb) \subseteq Pixels

\* a box returned with negative corners and corners beyond the frame was not skipped
\* and has been estimated, after a box of the same frame was skipped as degenerate
C22_Witness ==
    /\ pc = "alert"
    /\ idx = 2
    /\ visited[1].status = "skipped"
    /\ dets[2].box[1] < 0 /\ dets[2].box[2] < 0
    /\ dets[2].box[3] > W - 1 /\ dets[2].box[4] > H - 1
    /\ visited[2].status = "estimated"

----------------------------------------------------------------------------
(* Properties of the estimator taken alone (EstSpec) *)

\* the k-th smallest of the entries of the array v at the indices in ix, by counting
OrderStat(v, ix, k) ==
    CHOOSE x \in {v[i] : i \in ix} :
        /\ Cardinality({i \in ix : v[i] < x}) < k
        /\ k <= Cardinality({i \in ix : v[i] <= x})

\* one hundred times the 5th percentile of the array v: the point at position
\* 0.05 (n - 1) between two neighbouring order statistics, linearly interpolated
HundredPercentile5(v) ==
    LET h == 5 * (Len(v) - 1)
        lo == h \div 100 + 1
        fr == h % 100
        below == OrderStat(v, DOMAIN v, lo)
        above == IF fr = 0 THEN below ELSE OrderStat(v, DOMAIN v, lo + 1)
    IN (100 - fr) * below + fr * above

\* m (scaled by Scale) is the median of the entries of v at the indices in ix
IsMedian(m, v, ix) ==
    LET n == Cardinality(ix)
    IN IF n % 2 = 1 THEN m = OrderStat(v, ix, (n + 1) \div 2) * Scale
       ELSE 2 * m = (OrderStat(v, ix, n \div 2) + OrderStat(v, ix, n \div 2 + 1)) * Scale

Smallest(v) == CHOOSE x \in {v[i] : i \in DOMAIN v} : \A j \in DOMAIN v : x <= v[j]
Largest(v) == CHOOSE x \in {v[i] : i \in DOMAIN v} : \A j \in DOMAIN v : v[j] <= x

\* the array in ascending order, as numpy orders it
Ascending(v) == SortedDepths(DOMAIN v, v)

----------------------------------------------------------------------------
(* Properties of the voice assistant (VaSpec) *)

\* C23: listen_for_wake_word returns only after the engine reported the keyword
\* (keyword_index >= 0), so recording never starts without a wake word.
C23_RecordOnlyAfterWakeWord ==
    va_pc = "record" => keyword_index # None /\ keyword_index[1] >= 0

\* parse_llm_json has returned for the text in raw_response
Parsed == raw_response # NoText

ParsedFields == {"mode", "reply", "tool", "arguments"}

\* json.loads or obj.get raised: the text, freed of a closed fence, is no JSON object
ParsingFailed == raw_response.fence = "open" \/ raw_response.kind # "object"

UnknownMode ==
    raw_response.kind = "object" /\ raw_response.mode \notin {"<absent>", "reply", "tool_call"}

\* C24 as stated: the result has the four fields and a mode of "reply" or "tool_call";
\* a text that is not JSON (a fenced text is not), that is no JSON object or that names
\* an unknown mode gives mode "reply"; a failed parse gives the raw text as reply and
\* neither tool nor arguments.
C24_TextNotJsonGivesReply ==
    Parsed =>
        /\ DOMAIN parsed = ParsedFields
        /\ parsed.mode \in {"reply", "tool_call"}
        /\ (raw_response.fence # "none" \/ raw_response.kind # "object" \/ UnknownMode)
               => parsed.mode = "reply"
        /\ ParsingFailed => parsed = FallbackReply

\* C24, amended: as above, where "not JSON" is said of the text once a fence that
\* opens and closes it has been removed.
C24_ParseIsTotal ==
    Parsed =>
        /\ DOMAIN parsed = ParsedFields
        /\ parsed.mode \in {"reply", "tool_call"}
        /\ (ParsingFailed \/ UnknownMode) => parsed.mode = "reply"
        /\ ParsingFailed => parsed = FallbackReply

C24_Witness ==
    /\ va_pc = "speak"
    /\ raw_response.fence = "json"
    /\ raw_response.kind = "object"
    /\ raw_response.mode = "chat"
    /\ raw_response.tool = "navigation"
    /\ parsed.mode = "reply"
    /\ parsed.tool = "navigation"

\* the steps the loop guards with a try statement
GuardedSteps == {"stt", "llm", "tool"}

\* a pass of the loop ends and the next one begins
BackToWaiting == va_pc # "wake" /\ va_pc' = "wake"

\* C25: an exception in speech-to-text, in the LLM call or in the navigation tool never
\* ends the loop; a pass that got past the wake word calls tts.speak exactly once and
\* goes back to waiting; the tool is called only for mode "tool_call" and tool
\* "navigation".
C25_GuardedStepsNeverEndLoop ==
    /\ [](va_pc = "ended" => va_err[1] \notin GuardedSteps)
    /\ [](va_speaks <= 1)
    /\ [][BackToWaiting => va_speaks' = 1]_vars
    /\ [](va_pc = "tool" \/ va_tool_calls > 0
            => parsed.mode = "tool_call" /\ parsed.tool = "navigation")

\* one call of call_navigation_tool
ToolCall == va_pc = "tool" /\ va_tool_calls' = va_tool_calls + 1

\* C26: at most one subprocess started by the assistant is running; a call that starts
\* no new process leaves the list of processes and navigation_process as they were.
C26_OneProcessPreviousKept ==
    /\ [](Cardinality(Running(va_procs)) <= 1)
    /\ [][ToolCall /\ Len(va_procs') = Len(va_procs)
            => va_procs' = va_procs /\ navigation_process' = navigation_process]_vars


----------------------------------------------------------------------------
(* Properties of the navigation loop (NavSpec) *)

\* calls of print_next_instruction made with index 0: the ones that follow a fetch
FirstAnnouncements == Cardinality({i \in DOMAIN announced : announced[i].index = 0})

C28_StepIndexAdvancesAtWaypoint ==
    /\ [](0 <= current_step_index /\ current_step_index <= Len(route_steps))
    /\ [][/\ current_step_index' >= current_step_index
           /\ current_step_index' # current_step_index =>
                 /\ current_step_index' = current_step_index + 1
                 /\ nav_fixes' = nav_fixes + 1
                 /\ current_lat' # None
                 /\ Abs(current_lat'[1] - route_steps[current_step_index + 1].lat) < 15
                 /\ current_lon'[1] = route_steps[current_step_index + 1].lon]_vars

C28_Witness ==
    /\ current_step_index = 2
    /\ Len(route_steps) = 2
    /\ route_steps[1].lat = 100
    /\ route_steps[2].lat = 130
    /\ current_lat = Some(116)

\* calls of print_next_instruction that said the arrival
Arrivals == Cardinality({i \in DOMAIN announced : announced[i].said = "arrived"})

\* C29: destination_reached is true only with a fetched route whose steps are all
\* done (a route of no step included); the arrival is then said exactly once, the next
\* step of the loop leaves it, and the serial port is not open once navigate_loop is
\* left, by arrival, serial error or Ctrl-C.
C29_ArrivalOnceAndPortClosed ==
    /\ [](destination_reached => route_fetched /\ current_step_index = Len(route_steps))
    /\ [](Arrivals = IF destination_reached THEN 1 ELSE 0)
    /\ [][destination_reached => nav_pc' = "exited"]_vars
    /\ [](nav_pc = "exited" => ser # "open")

C29_Witness ==
    /\ nav_pc = "exited"
    /\ nav_exit = "arrival"
    /\ Len(route_steps) = 2
    /\ destination_reached
    /\ ser = "closed"


----------------------------------------------------------------------------
(* Properties of the GPS publisher (PubSpec) *)

\* the fields a GGA sentence writes
GgaFields == {"latitude", "longitude", "altitude", "hdop"}

\* C31: when parse_gps_data returns False, gps_data is as it was before the call: no
\* field holds a value of the sentence the call was given (sentence rd_seq, whose
\* values are written as rd_seq).
C31_FalseLeavesGpsDataUnchanged ==
    rd_ret = Some(FALSE) => \A f \in GgaFields : gps_data[f] # Some(rd_seq)

\* C30: the latitude and the longitude of every published payload were written by the
\* same GGA sentence, whatever the interleaving of gps_reader and main.
C30_PayloadFromOneSentence ==
    published # None => published[1].latitude = published[1].longitude

====
